---- MODULE Spec2Model ----
(***************************************************************************)
(* A model of the key-custody broker of cmd/lotus-wallet and               *)
(* cmd/lotus-offline-wallet: the offline pending-signature queue           *)
(* (offline.go), the relay server and its client loop (server.go,          *)
(* main.go) and the multi-backend router with its capability-restricting   *)
(* decorator (safewallet.go).                                              *)
(***************************************************************************)
EXTENDS Integers, Sequences, FiniteSets, TLC

(***************************************************************************)
(* Bounds of the model.                                                    *)
(***************************************************************************)
\* Sign calls on the offline queue that may be in progress at a time.
MaxPending == 2

(***************************************************************************)
(* Shared data: addresses, payload bytes, signing context, signatures.     *)
(***************************************************************************)
Addrs == {"a1", "a2"}

\* Byte strings handed to Sign. The first byte is where a content identifier
\* is encoded; whatever follows it is trailing data.
Payloads == {<< >>, <<1>>, <<2>>}

MTChainMsg == "message"
MsgTypes == {MTChainMsg, "block"}

NoSig == [by |-> "nil", of |-> << >>]

\* Signatures an operator may submit for a payload: made over it with the key
\* of one of the addresses (the key of another address makes it a wrong one).
SigsOver(b) == {[by |-> k, of |-> b] : k \in Addrs}

\* cid.CidFromBytes: decodes a content identifier from the front of the bytes
\* and fails when there is none; trailing bytes are not part of the result.
CidFromBytes(b) ==
    IF Len(b) = 0 THEN [err |-> "cid", cid |-> 0]
    ELSE [err |-> "nil", cid |-> Head(b)]

Cids == {CidFromBytes(b).cid : b \in {x \in Payloads : CidFromBytes(x).err = "nil"}}

\* sigs.Verify: the signature was made by the key of addr over exactly toSign.
Verify(sig, addr, toSign) == sig.by = addr /\ sig.of = toSign

(***************************************************************************)
(* The offline pending-signature queue (offline.go).                       *)
(*                                                                         *)
(* unsigned  the pending map, address -> cid -> entry; an inner map that   *)
(*           was never made reads like an empty one and is modelled so     *)
(* lock      "free", or "submit" while SubmitSignature holds it; the       *)
(*           critical sections of WalletSign are single steps              *)
(* calls     the WalletSign calls in progress, each on its own goroutine,  *)
(*           named by the channel the call made                            *)
(* sub       the SubmitSignature call that holds the lock, if any          *)
(* ret       what the call that returned last handed to its caller         *)
(***************************************************************************)
VARIABLES unsigned, lock, calls, sub, ret

offVars == <<unsigned, lock, calls, sub, ret>>

(***************************************************************************)
(* The state of cmd/lotus-wallet.                                          *)
(*                                                                         *)
(* wallets   MultiWallet.wallets, the ordered backends with their keys     *)
(* clients   WalletServer.clients: the registered connections, each with   *)
(*           the address list its peer advertised (clientWallet.addresses) *)
(* rret      what the router call that returned last handed to its caller  *)
(* rlog      the backend methods that call invoked, in order               *)
(***************************************************************************)
VARIABLES wallets, clients, rret, rlog

routerVars == <<wallets, clients, rret, rlog>>

(***************************************************************************)
(* The relay of WalletServer (server.go) and its peers.                    *)
(*                                                                         *)
(* conn      per connection: st, where ServeHTTP/serve stands; wallet, the *)
(*           addresses the peer's own wallet holds; hb, the heartbeat      *)
(*           goroutine                                                     *)
(* toPeer    the frame written to the connection and not yet read          *)
(* fromPeer  the frame the peer sent and the server has not yet read       *)
(* mutex     WalletServer.mutex: "free", or "sign" while WalletSign has it *)
(* sgn       the router Sign call under way through the server backend     *)
(* waiting   further Sign calls, on goroutines of their own, that the      *)
(*           server's WalletHas answered and that have yet to get the      *)
(*           mutex in its WalletSign                                       *)
(***************************************************************************)
VARIABLES conn, toPeer, fromPeer, mutex, sgn, waiting

relayVars == <<conn, toPeer, fromPeer, mutex, sgn, waiting>>

walletVars == <<routerVars, relayVars>>

vars == <<offVars, routerVars, relayVars>>

Chans == 1..MaxPending

NoMsg == [Address |-> "none", ToSign |-> << >>, Signature |-> NoSig]
NoRes == [sig |-> NoSig, err |-> "none"]
NoSub == [pc |-> "none", msg |-> NoMsg, ch |-> 0]

\* The value a call hands back to its caller: the operation and its error.
Returned(op, err) == [op |-> op, err |-> err]

\* &UnsignedMessage{Address: signer, ToSign: toSign, Meta: ...}
UnsignedMessage(signer, toSign, type) ==
    [Address |-> signer, ToSign |-> toSign, Type |-> type]

\* PendingUnsignedMessage{msg, ch}
PendingUnsignedMessage(signer, toSign, type, ch) ==
    [msg |-> UnsignedMessage(signer, toSign, type), ch |-> ch]

\* o.unsigned[signer][c] = PendingUnsignedMessage{...}
Insert(u, signer, c, e) == [u EXCEPT ![signer] = (c :> e) @@ @]

\* A delete that leaves the map as it is.
RemoveNothing(u, signer, c) == u

\* delete(o.unsigned[signer], c)
Remove(u, signer, c) ==
    [u EXCEPT ![signer] = [k \in (DOMAIN @) \ {c} |-> @[k]]]

\* The keys <<address, cid>> of the pending map.
PendingKeys(u) == {k \in Addrs \X Cids : k[2] \in DOMAIN u[k[1]]}

\* GetPendingMessages: the messages of all entries, over all addresses.
GetPendingMessages(u) == {u[k[1]][k[2]].msg : k \in PendingKeys(u)}

\* The key WalletSign files a call under: its locals signer and c.
KeyOf(c) == <<c.signer, c.cid>>

\* make(chan *crypto.Signature): a channel no call, entry or submitter holds.
\* The connections a run may see.
MaxConns == 2

\* Sign calls that may be inside the router at a time.
MaxCallers == 2

Conns == 1..MaxConns

NoConn == [st |-> "none", wallet |-> << >>, hb |-> "off"]
NoFrame == [frame |-> "none"]
NoSign == [pc |-> "idle", signer |-> "none", toSign |-> << >>, conn |-> 0, writes |-> 0]

\* No connection was ever made and no call is under way.
RelayIdle ==
    /\ conn = [c \in Conns |-> NoConn]
    /\ toPeer = [c \in Conns |-> NoFrame]
    /\ fromPeer = [c \in Conns |-> NoFrame]
    /\ mutex = "free"
    /\ sgn = NoSign
    /\ waiting = << >>

\* The relay left out: no connection is modelled and no call is under way.
NoRelay ==
    /\ conn = << >>
    /\ toPeer = << >>
    /\ fromPeer = << >>
    /\ mutex = "free"
    /\ sgn = NoSign
    /\ waiting = << >>

FreeChans ==
    Chans \ (DOMAIN calls \cup {sub.ch}
             \cup {unsigned[k[1]][k[2]].ch : k \in PendingKeys(unsigned)})

OffInit ==
    /\ unsigned = [a \in Addrs |-> << >>]
    /\ lock = "free"
    /\ calls = << >>
    /\ sub = NoSub
    /\ ret = Returned("none", "none")
    /\ wallets = << >>
    /\ clients = << >>
    /\ rret = [op |-> "none", err |-> "none"]
    /\ rlog = << >>
    /\ NoRelay

\* WalletSign, the checks before the queue is touched: no content identifier
\* in toSign, or a signing context other than MTChainMsg.
SignCheck(toSign, type) ==
    IF CidFromBytes(toSign).err # "nil" THEN "cid"
    ELSE IF type # MTChainMsg THEN "msgtype"
    ELSE "nil"

\* WalletSign, the early returns, which do not look at the signer.
SignReject(toSign, type) ==
    /\ SignCheck(toSign, type) # "nil"
    /\ ret' = Returned("Sign", SignCheck(toSign, type))
    /\ UNCHANGED <<unsigned, lock, calls, sub, walletVars>>

\* WalletSign, the first critical section: a fresh channel, the entry stored
\* under (signer, cid), the lock released; the caller then waits in select.
SignEnqueue(signer, toSign, type) ==
    /\ SignCheck(toSign, type) = "nil"
    /\ lock = "free"
    /\ FreeChans # {}
    /\ LET ch == CHOOSE x \in FreeChans : \A y \in FreeChans : x <= y
       IN /\ unsigned' = Insert(unsigned, signer, CidFromBytes(toSign).cid,
                                PendingUnsignedMessage(signer, toSign, type, ch))
          /\ calls' = (ch :> [signer |-> signer, cid |-> CidFromBytes(toSign).cid,
                              pc |-> "select", res |-> NoRes]) @@ calls
    /\ UNCHANGED <<lock, sub, ret, walletVars>>

\* return nil, fmt.Errorf("timeout to wait to submit signature")
TimedOut == [sig |-> NoSig, err |-> "timeout"]

\* WalletSign, select: the timer case. The result is set, the deferred
\* function has still to run.
SignTimeout(ch) ==
    /\ ch \in DOMAIN calls
    /\ calls[ch].pc = "select"
    /\ calls' = [calls EXCEPT ![ch].pc = "cleanup", ![ch].res = TimedOut]
    /\ UNCHANGED <<unsigned, lock, sub, ret, walletVars>>

\* A submitter that hands over a pointer to an empty signature.
SentEmpty(m) == NoSig

\* The value a submitter hands over: &message.Signature.
Sent(m) == m.Signature

\* WalletSign, select: the channel case, together with the send of
\* SubmitSignature that it meets on the unbuffered channel; the submitter
\* then returns nil and its deferred Unlock runs.
Rendezvous(ch) ==
    /\ ch \in DOMAIN calls
    /\ calls[ch].pc = "select"
    /\ sub.pc = "sending"
    /\ sub.ch = ch
    /\ calls' = [calls EXCEPT ![ch].pc = "cleanup",
                              ![ch].res = [sig |-> Sent(sub.msg), err |-> "nil"]]
    /\ sub' = NoSub
    /\ lock' = "free"
    /\ ret' = Returned("Submit", "nil")
    /\ UNCHANGED <<unsigned, walletVars>>

\* A deferred function that takes the lock and deletes nothing.
CleanedNothing(u, signer, c) == u

\* The map after the deferred function of WalletSign has run.
Cleaned(u, signer, c) == Remove(u, signer, c)

\* WalletSign, the deferred critical section, and the return to the caller.
SignCleanup(ch) ==
    /\ ch \in DOMAIN calls
    /\ calls[ch].pc = "cleanup"
    /\ lock = "free"
    /\ unsigned' = Cleaned(unsigned, KeyOf(calls[ch])[1], KeyOf(calls[ch])[2])
    /\ calls' = [c \in DOMAIN calls \ {ch} |-> calls[c]]
    /\ ret' = Returned("Sign", calls[ch].res.err)
    /\ UNCHANGED <<lock, sub, walletVars>>

\* What SubmitSignature returns before it takes the lock: "nil" to go on.
SubmitCheck(m) ==
    IF CidFromBytes(m.ToSign).err # "nil" THEN "cid"
    ELSE IF ~Verify(m.Signature, m.Address, m.ToSign) THEN "verify"
    ELSE "nil"

\* An early return that drops the entries of the message's address.
RejectedDrops(u, m) ==
    IF m.Address \in Addrs THEN [u EXCEPT ![m.Address] = << >>] ELSE u

\* The map SubmitSignature leaves behind when it returns early.
Rejected(u, m) == u

\* SubmitSignature, the early returns.
SubmitReject(m) ==
    /\ SubmitCheck(m) # "nil"
    /\ unsigned' = Rejected(unsigned, m)
    /\ ret' = Returned("Submit", SubmitCheck(m))
    /\ UNCHANGED <<lock, calls, sub, walletVars>>

\* A scan that stops at the first entry it visits, whatever its key.
MatchesAny(u, m) == PendingKeys(u)

\* The entries the scan of SubmitSignature can stop at: map iteration visits
\* the addresses in no fixed order and stops at the first entry with c == cid.
Matches(u, m) == {k \in PendingKeys(u) : k[2] = CidFromBytes(m.ToSign).cid}

\* SubmitSignature with the lock taken: no entry with this cid, "does not exist".
SubmitNotFound(m) ==
    /\ SubmitCheck(m) = "nil"
    /\ lock = "free"
    /\ Matches(unsigned, m) = {}
    /\ ret' = Returned("Submit", "notexist")
    /\ UNCHANGED <<unsigned, lock, calls, sub, walletVars>>

\* SubmitSignature with the lock taken: an entry found, the send on its
\* channel begun; the lock stays held until the function returns.
SubmitSend(m) ==
    /\ SubmitCheck(m) = "nil"
    /\ lock = "free"
    /\ \E k \in Matches(unsigned, m) :
          sub' = [pc |-> "sending", msg |-> m, ch |-> unsigned[k[1]][k[2]].ch]
    /\ lock' = "submit"
    /\ UNCHANGED <<unsigned, calls, ret, walletVars>>

\* The submissions tried: for every address and every payload with a content
\* identifier, each signature over the payload; and one without an identifier.
Messages ==
    UNION {{[Address |-> a, ToSign |-> b, Signature |-> s] : s \in SigsOver(b)} :
             a \in Addrs, b \in Payloads \ {<< >>}}
      \cup {[Address |-> "a1", ToSign |-> << >>, Signature |-> NoSig]}

OffNext ==
    \/ \E b \in Payloads, t \in MsgTypes : SignReject(b, t)
    \/ \E a \in Addrs, b \in Payloads, t \in MsgTypes : SignEnqueue(a, b, t)
    \/ \E ch \in Chans : SignTimeout(ch)
    \/ \E ch \in Chans : SignCleanup(ch)
    \/ \E ch \in Chans : Rendezvous(ch)
    \/ \E m \in Messages : SubmitReject(m)
    \/ \E m \in Messages : SubmitNotFound(m)
    \/ \E m \in Messages : SubmitSend(m)

SpecOffline == OffInit /\ [][OffNext]_vars

(***************************************************************************)
(* Properties of the offline queue.                                        *)
(***************************************************************************)
\* Steps of one WalletSign call, read off the state change.
Delivered(ch) ==
    /\ ch \in DOMAIN calls /\ calls[ch].pc = "select"
    /\ ch \in DOMAIN calls' /\ calls'[ch].pc = "cleanup" /\ calls'[ch].res.err = "nil"

TimerFired(ch) ==
    /\ ch \in DOMAIN calls /\ calls[ch].pc = "select"
    /\ ch \in DOMAIN calls' /\ calls'[ch].pc = "cleanup" /\ calls'[ch].res.err # "nil"

SignReturned(ch) == ch \in DOMAIN calls /\ ch \notin DOMAIN calls'

\* ListPending shows no request of this call's address and content identifier.
NotListed(u, c) ==
    /\ KeyOf(c) \notin PendingKeys(u)
    /\ \A m \in GetPendingMessages(u) :
          ~(m.Address = c.signer /\ CidFromBytes(m.ToSign).cid = c.cid)

\* The entry under the call's key is the call's own, and the call waits on it.
BlockedOnOwnEntry(u, ch) ==
    /\ ch \in DOMAIN calls
    /\ calls[ch].pc = "select"
    /\ KeyOf(calls[ch]) \in PendingKeys(u)
    /\ u[calls[ch].signer][calls[ch].cid].ch = ch

\* C1: the rendezvous. A SubmitSignature that took the lock sends on the
\* channel of an entry with the cid of its payload; the Sign call waiting on
\* that channel receives exactly the submitted, verified signature, the
\* submission returns nil, the result does not change until Sign returns, and
\* when Sign returns nil its request is no longer listed as pending.
C1_Rendezvous ==
    [][ (calls' # calls \/ sub' # sub) =>
        /\ (sub.pc = "none" /\ sub'.pc = "sending") =>
              \E k \in Matches(unsigned, sub'.msg) :
                  /\ sub'.ch = unsigned[k[1]][k[2]].ch
                  /\ (Matches(unsigned, sub'.msg) = {k} /\ BlockedOnOwnEntry(unsigned, sub'.ch)
                        => KeyOf(calls[sub'.ch]) = k)
        /\ \A ch \in Chans :
              /\ Delivered(ch) =>
                    /\ sub.pc = "sending" /\ sub.ch = ch
                    /\ Verify(sub.msg.Signature, sub.msg.Address, sub.msg.ToSign)
                    /\ CidFromBytes(sub.msg.ToSign).cid = calls[ch].cid
                    /\ calls'[ch].res = [sig |-> sub.msg.Signature, err |-> "nil"]
                    /\ ret' = Returned("Submit", "nil")
                    /\ lock' = "free"
              /\ (ch \in DOMAIN calls /\ calls[ch].pc = "cleanup" /\ ~SignReturned(ch))
                    => calls'[ch] = calls[ch]
              /\ (SignReturned(ch) /\ calls[ch].res.err = "nil") =>
                    /\ calls[ch].pc = "cleanup"
                    /\ ret' = Returned("Sign", "nil")
                    /\ NotListed(unsigned', calls[ch])
      ]_vars

\* A Sign call has returned the signature it was sent and nothing is pending.
C1_Witness ==
    /\ ret = Returned("Sign", "nil")
    /\ calls = << >>
    /\ GetPendingMessages(unsigned) = {}

\* A valid submission for the entry of call ch would find it and send to ch.
Deliverable(u, ch) ==
    /\ BlockedOnOwnEntry(u, ch)
    /\ \E m \in Messages :
          /\ m.Address = u[calls[ch].signer][calls[ch].cid].msg.Address
          /\ m.ToSign = u[calls[ch].signer][calls[ch].cid].msg.ToSign
          /\ SubmitCheck(m) = "nil"
          /\ KeyOf(calls[ch]) \in Matches(u, m)

\* The submissions with a content identifier whose signature does not verify.
Unverified ==
    {m \in Messages : CidFromBytes(m.ToSign).err = "nil"
                        /\ ~Verify(m.Signature, m.Address, m.ToSign)}

\* C2: a SubmitSignature whose signature does not verify returns the
\* verification error and changes neither the pending map, nor the lock, nor
\* any Sign call, nor sends anything: the entry stays as it was, for a
\* correct submission to be delivered to.
C2_RejectedSubmission ==
    [][ /\ (ret' # ret /\ ret' = Returned("Submit", "verify")) =>
              /\ \A m \in Unverified : SubmitCheck(m) = "verify"
              /\ \E m \in Unverified : SubmitReject(m)
              /\ lock' = lock
              /\ calls' = calls
              /\ sub' = sub
        /\ (ret' = Returned("Submit", "verify") /\ calls' = calls /\ sub' = sub) =>
              unsigned' = unsigned
      ]_vars

\* A submission was turned down for its signature while a Sign call is still
\* blocked on its entry, which a correct submission can reach.
C2_Witness ==
    /\ ret = Returned("Submit", "verify")
    /\ lock = "free"
    /\ \E ch \in Chans : Deliverable(unsigned, ch)

\* C3: when the timer case of select is taken, the Sign call's result is the
\* timeout error with no signature, no later submission changes it, and when
\* the call returns its request is no longer listed as pending.
C3_Timeout ==
    [][ calls' # calls => \A ch \in Chans :
          /\ TimerFired(ch) =>
                /\ calls'[ch].res = [sig |-> NoSig, err |-> "timeout"]
                /\ unsigned' = unsigned
          /\ (ch \in DOMAIN calls /\ calls[ch].pc = "cleanup"
                /\ calls[ch].res.err = "timeout" /\ ~SignReturned(ch))
                => calls'[ch] = calls[ch]
          /\ (SignReturned(ch) /\ calls[ch].res.err = "timeout") =>
                /\ calls[ch].pc = "cleanup"
                /\ ret' = Returned("Sign", "timeout")
                /\ NotListed(unsigned', calls[ch])
      ]_vars

\* A Sign call has returned the timeout error and nothing is pending.
C3_Witness ==
    /\ ret = Returned("Sign", "timeout")
    /\ calls = << >>
    /\ GetPendingMessages(unsigned) = {}

\* No pending entry, under any address, has the content identifier of m.
NoEntryWith(u, m) ==
    \A a \in Addrs : CidFromBytes(m.ToSign).cid \notin DOMAIN u[a]

\* The submissions that pass both checks of SubmitSignature.
Verified == {m \in Messages : SubmitCheck(m) = "nil"}

\* C11: a SubmitSignature whose signature verifies and whose content
\* identifier no pending entry has returns "does not exist": it can neither
\* start a send nor return early, a scan starts a send only at an entry with
\* the identifier of the submitted payload, and the step that returns "does
\* not exist" changes neither the pending map, nor any Sign call, nor the lock.
C11_NotFound ==
    [][ /\ (ret' # ret /\ ret' = Returned("Submit", "notexist")) =>
              /\ \E m \in Verified : NoEntryWith(unsigned, m)
              /\ unsigned' = unsigned
              /\ calls' = calls
              /\ sub' = sub
              /\ lock' = lock
        /\ (sub.pc = "none" /\ sub'.pc = "sending") =>
              /\ ~NoEntryWith(unsigned, sub'.msg)
              /\ \E a \in Addrs :
                    /\ CidFromBytes(sub'.msg.ToSign).cid \in DOMAIN unsigned[a]
                    /\ unsigned[a][CidFromBytes(sub'.msg.ToSign).cid].ch = sub'.ch
        /\ (sub' # sub \/ ret' # ret) =>
              \A m \in Verified :
                 (NoEntryWith(unsigned, m) /\ lock = "free") =>
                    /\ ~SubmitSend(m)
                    /\ ~SubmitReject(m)
                    /\ ENABLED SubmitNotFound(m)
      ]_vars

\* A verifying submission was answered "does not exist" while a Sign call for
\* another payload stays blocked on its entry.
C11_Witness ==
    /\ ret = Returned("Submit", "notexist")
    /\ lock = "free"
    /\ sub = NoSub
    /\ \E ch \in Chans : BlockedOnOwnEntry(unsigned, ch)

\* The submitter is blocked in its send: no Sign call waits in select on the
\* channel it sends on.
SendBlocked ==
    /\ sub.pc = "sending"
    /\ ~(sub.ch \in DOMAIN calls /\ calls[sub.ch].pc = "select")

\* C14: the lock of the offline queue is never held by a thread that is
\* blocked on a channel operation or on the timeout: a Sign call that waits
\* in select does not hold it, and neither does a submitter blocked in its
\* send, so that another Sign call can be enqueued.
C14_LockOnlyForMap ==
    /\ (\E ch \in DOMAIN calls : calls[ch].pc = "select") /\ sub.pc = "none"
          => lock = "free"
    /\ SendBlocked => lock = "free"

\* C20: SubmitSignature delivers only to the entry filed under the address
\* of the submitted message and the content identifier of its payload: the
\* send it starts is on the channel of that entry, and a Sign(addr, payload)
\* call receives only a signature that was verified against addr.
C20_AddressAndCid ==
    [][ (calls' # calls \/ sub' # sub) =>
        /\ (sub.pc = "none" /\ sub'.pc = "sending") =>
              /\ <<sub'.msg.Address, CidFromBytes(sub'.msg.ToSign).cid>>
                    \in PendingKeys(unsigned)
              /\ unsigned[sub'.msg.Address][CidFromBytes(sub'.msg.ToSign).cid].ch
                    = sub'.ch
        /\ \A ch \in Chans :
              Delivered(ch) =>
                /\ sub.msg.Address = calls[ch].signer
                /\ Verify(calls'[ch].res.sig, calls[ch].signer, sub.msg.ToSign)
      ]_vars

KeyTypes == {"secp256k1", "secp256k1-ledger", "unknown"}
\* The addresses of keys made while the system runs.
NewAddrs == {"n1"}
AllAddrs == Addrs \cup NewAddrs
AddrOrder == <<"a1", "a2", "n1">>
Undef == "undef"
NoKey == [Type |-> "none", key |-> Undef]
Meta == [Type |-> MTChainMsg, Extra |-> << >>]

\* Address lists a peer may advertise.
AddrLists == {<< >>, <<"a1">>, <<"a1", "a2">>}

\* A key file: its type and the address its private key stands for.
KeyInfos == {[Type |-> t, key |-> a] : t \in KeyTypes, a \in Addrs}

\* What the peer's answer to a sign request comes to at the server.
SignReplies(a, toSign) ==
    {[err |-> "nil", sig |-> [by |-> a, of |-> toSign]], [err |-> "peer", sig |-> NoSig]}

\* The result of one backend method: the error, the value, the backend after
\* the call and, for a decorator, the methods it invoked on what it wraps.
Result(err, val, st, inner) == [err |-> err, val |-> val, st |-> st, inner |-> inner]

\* The key types a keystore backend makes and stores keys of.
Types(b) == IF b.kind = "local" THEN {"secp256k1"}
            ELSE IF b.kind = "ledger" THEN {"secp256k1-ledger"}
            ELSE {}

\* The addresses of a set in the order a keystore lists them.
Listed(S) == SelectSeq(AddrOrder, LAMBDA a : a \in S)

\* The keystore backends (LocalWallet, LedgerWallet).
KsNew(b, kt, fresh) ==
    IF kt \in Types(b)
    THEN Result("nil", fresh, [b EXCEPT !.keys = @ \cup {fresh}], << >>)
    ELSE Result("unsupported key type", Undef, b, << >>)

KsHas(b, a) == Result("nil", a \in b.keys, b, << >>)

KsList(b) == Result("nil", Listed(b.keys), b, << >>)

KsSign(b, a, toSign, meta) ==
    IF a \in b.keys
    THEN Result("nil", [by |-> a, of |-> toSign], b, << >>)
    ELSE Result("key not found", NoSig, b, << >>)

KsExport(b, a) ==
    IF a \in b.keys
    THEN Result("nil", [Type |-> CHOOSE t \in Types(b) : TRUE, key |-> a], b, << >>)
    ELSE Result("key not found", NoKey, b, << >>)

KsImport(b, ki) ==
    IF ki.Type \in Types(b)
    THEN Result("nil", ki.key, [b EXCEPT !.keys = @ \cup {ki.key}], << >>)
    ELSE Result("unsupported key type", Undef, b, << >>)

KsDelete(b, a) ==
    IF a \in b.keys
    THEN Result("nil", Undef, [b EXCEPT !.keys = @ \ {a}], << >>)
    ELSE Result("key not found", Undef, b, << >>)

RECURSIVE Concat(_, _)
\* append(addresses, c.addresses...) over the clients in iteration order.
Concat(cl, order) ==
    IF order = << >> THEN << >> ELSE cl[Head(order)] \o Concat(cl, Tail(order))

\* The orders a range over the clients map may take.
Orders(cl) == {o \in [1..Cardinality(DOMAIN cl) -> DOMAIN cl] :
                  \A i, j \in DOMAIN o : i # j => o[i] # o[j]}

\* The clients that advertised addr.
Owners(cl, addr) == {c \in DOMAIN cl : \E i \in DOMAIN cl[c] : cl[c][i] = addr}

\* A server whose Delete reports success.
SrvDeleteDone(b, a) == Result("nil", Undef, b, << >>)

\* WalletServer, the methods that need no round trip.
SrvNew(b, kt) == Result("not support to new wallet", Undef, b, << >>)

SrvHas(b, cl, a) == Result("nil", Owners(cl, a) # {}, b, << >>)

SrvList(b, cl, order) == Result("nil", Concat(cl, order), b, << >>)

SrvExport(b, a) == Result("not support to export", NoKey, b, << >>)

SrvImport(b, ki) == Result("not support to import", Undef, b, << >>)

SrvDelete(b, a) == Result("not support to delete", Undef, b, << >>)

\* WalletServer.WalletSign seen from the router: no client advertised the
\* signer, or the outcome of the round trip with the client that did.
SrvSign(b, cl, a, reply) ==
    IF Owners(cl, a) = {} THEN Result("wallet not exist", NoSig, b, << >>)
    ELSE Result(reply.err, reply.sig, b, << >>)

\* The backend without its decorator, and the decorator put back.
Inner(b) == [b EXCEPT !.safe = FALSE]
Wrap(r, name) == [r EXCEPT !.st = [@ EXCEPT !.safe = TRUE], !.inner = <<name>>]

\* The methods of the backend a SafeWallet embeds.
InnerNew(b, kt, fresh) == IF b.kind = "server" THEN SrvNew(b, kt) ELSE KsNew(b, kt, fresh)
InnerHas(b, cl, a) == IF b.kind = "server" THEN SrvHas(b, cl, a) ELSE KsHas(b, a)
InnerList(b, cl, order) == IF b.kind = "server" THEN SrvList(b, cl, order) ELSE KsList(b)
InnerSign(b, cl, a, toSign, meta, reply) ==
    IF b.kind = "server" THEN SrvSign(b, cl, a, reply) ELSE KsSign(b, a, toSign, meta)
InnerExport(b, a) == IF b.kind = "server" THEN SrvExport(b, a) ELSE KsExport(b, a)
InnerImport(b, ki) == IF b.kind = "server" THEN SrvImport(b, ki) ELSE KsImport(b, ki)
InnerDelete(b, a) == IF b.kind = "server" THEN SrvDelete(b, a) ELSE KsDelete(b, a)

\* A decorator whose Delete refuses like its Export.
SafeWalletDeleteRefuses(b, a) == Result("DO NOT DELETE THIS WALLET", Undef, b, << >>)

\* SafeWallet (safewallet.go).
SafeWalletNew(b, kt, fresh) ==
    Result("safe wallet is enabled, use import instead of new", Undef, b, << >>)

SafeWalletHas(b, cl, a) == Wrap(InnerHas(Inner(b), cl, a), "WalletHas")

SafeWalletList(b, cl, order) == Wrap(InnerList(Inner(b), cl, order), "WalletList")

SafeWalletSign(b, cl, a, toSign, meta, reply) ==
    Wrap(InnerSign(Inner(b), cl, a, toSign, meta, reply), "WalletSign")

SafeWalletExport(b, a) == Result("DO NOT EXPORT THIS WALLET", NoKey, b, << >>)

SafeWalletImport(b, ki) == Wrap(InnerImport(Inner(b), ki), "WalletImport")

SafeWalletDelete(b, a) == Wrap(InnerDelete(Inner(b), a), "WalletDelete")

\* Interface dispatch on one element of MultiWallet.wallets.
WalletNew(b, kt, fresh) ==
    IF b.safe THEN SafeWalletNew(b, kt, fresh) ELSE InnerNew(b, kt, fresh)
WalletHas(b, cl, a) == IF b.safe THEN SafeWalletHas(b, cl, a) ELSE InnerHas(b, cl, a)
WalletList(b, cl, order) ==
    IF b.safe THEN SafeWalletList(b, cl, order) ELSE InnerList(b, cl, order)
WalletSign(b, cl, a, toSign, meta, reply) ==
    IF b.safe THEN SafeWalletSign(b, cl, a, toSign, meta, reply)
    ELSE InnerSign(b, cl, a, toSign, meta, reply)
WalletExport(b, a) == IF b.safe THEN SafeWalletExport(b, a) ELSE InnerExport(b, a)
WalletImport(b, ki) == IF b.safe THEN SafeWalletImport(b, ki) ELSE InnerImport(b, ki)
WalletDelete(b, a) == IF b.safe THEN SafeWalletDelete(b, a) ELSE InnerDelete(b, a)

(***************************************************************************)
(* MultiWallet (safewallet.go): each method is the loop over m.wallets,    *)
(* from index i on; log collects the backend methods invoked.              *)
(***************************************************************************)
Out(err, val, ws, log) == [err |-> err, val |-> val, ws |-> ws, log |-> log]

\* A loop that takes every backend's call for a success.
SucceededAlways(r) == TRUE

\* if err == nil, in WalletNew and WalletImport.
Succeeded(r) == r.err = "nil"

\* A loop that stops at the first backend whatever its Has says.
FoundAlways(h) == TRUE

\* if a, on what WalletHas returned.
Found(h) == h.val

\* A list loop that appends every address it is given.
DedupNone(out, l) == out \o l

RECURSIVE MwNew(_, _, _, _, _)
MwNew(ws, i, kt, fresh, log) ==
    IF i > Len(ws)
    THEN Out("no wallet backends supporting key type", Undef, ws, log)
    ELSE LET r == WalletNew(ws[i], kt, fresh)
             l == Append(log, <<i, "WalletNew">>)
         IN IF Succeeded(r)
            THEN Out(r.err, r.val, [ws EXCEPT ![i] = r.st], l)
            ELSE MwNew([ws EXCEPT ![i] = r.st], i + 1, kt, fresh, l)

MultiWalletNew(ws, kt, fresh) == MwNew(ws, 1, kt, fresh, << >>)

RECURSIVE MwHas(_, _, _, _, _)
MwHas(ws, cl, i, a, log) ==
    IF i > Len(ws) THEN Out("nil", FALSE, ws, log)
    ELSE LET r == WalletHas(ws[i], cl, a)
             l == Append(log, <<i, "WalletHas">>)
         IN IF Found(r) THEN Out("nil", TRUE, ws, l) ELSE MwHas(ws, cl, i + 1, a, l)

MultiWalletHas(ws, cl, a) == MwHas(ws, cl, 1, a, << >>)

RECURSIVE Dedup(_, _)
\* The inner loop of WalletList: append what is not in seen.
Dedup(out, l) ==
    IF l = << >> THEN out
    ELSE IF \E j \in DOMAIN out : out[j] = Head(l) THEN Dedup(out, Tail(l))
    ELSE Dedup(Append(out, Head(l)), Tail(l))

RECURSIVE MwList(_, _, _, _, _, _)
MwList(ws, cl, order, i, out, log) ==
    IF i > Len(ws) THEN Out("nil", out, ws, log)
    ELSE LET r == WalletList(ws[i], cl, order)
             l == Append(log, <<i, "WalletList">>)
         IN IF r.err # "nil" THEN Out(r.err, << >>, ws, l)
            ELSE MwList(ws, cl, order, i + 1, Dedup(out, r.val), l)

MultiWalletList(ws, cl, order) == MwList(ws, cl, order, 1, << >>, << >>)

RECURSIVE MwSign(_, _, _, _, _, _, _, _)
MwSign(ws, cl, i, a, toSign, meta, reply, log) ==
    IF i > Len(ws) THEN Out("key not found", NoSig, ws, log)
    ELSE LET h == WalletHas(ws[i], cl, a)
             l == Append(log, <<i, "WalletHas">>)
         IN IF Found(h)
            THEN LET r == WalletSign(ws[i], cl, a, toSign, meta, reply)
                 IN Out(r.err, r.val, [ws EXCEPT ![i] = r.st], Append(l, <<i, "WalletSign">>))
            ELSE MwSign(ws, cl, i + 1, a, toSign, meta, reply, l)

MultiWalletSign(ws, cl, a, toSign, meta, reply) ==
    MwSign(ws, cl, 1, a, toSign, meta, reply, << >>)

RECURSIVE MwExport(_, _, _, _, _)
MwExport(ws, cl, i, a, log) ==
    IF i > Len(ws) THEN Out("key not found", NoKey, ws, log)
    ELSE LET h == WalletHas(ws[i], cl, a)
             l == Append(log, <<i, "WalletHas">>)
         IN IF Found(h)
            THEN LET r == WalletExport(ws[i], a)
                 IN Out(r.err, r.val, [ws EXCEPT ![i] = r.st], Append(l, <<i, "WalletExport">>))
            ELSE MwExport(ws, cl, i + 1, a, l)

MultiWalletExport(ws, cl, a) == MwExport(ws, cl, 1, a, << >>)

RECURSIVE MwImport(_, _, _, _)
MwImport(ws, i, ki, log) ==
    IF i > Len(ws)
    THEN Out("no wallet backends supporting key type", Undef, ws, log)
    ELSE LET r == WalletImport(ws[i], ki)
             l == Append(log, <<i, "WalletImport">>)
         IN IF Succeeded(r)
            THEN Out(r.err, r.val, [ws EXCEPT ![i] = r.st], l)
            ELSE MwImport([ws EXCEPT ![i] = r.st], i + 1, ki, l)

MultiWalletImport(ws, ki) == MwImport(ws, 1, ki, << >>)

RECURSIVE MwDelete(_, _, _, _, _)
MwDelete(ws, cl, i, a, log) ==
    IF i > Len(ws) THEN Out("key not found", Undef, ws, log)
    ELSE LET h == WalletHas(ws[i], cl, a)
             l == Append(log, <<i, "WalletHas">>)
         IN IF Found(h)
            THEN LET r == WalletDelete(ws[i], a)
                 IN Out(r.err, r.val, [ws EXCEPT ![i] = r.st], Append(l, <<i, "WalletDelete">>))
            ELSE MwDelete(ws, cl, i + 1, a, l)

MultiWalletDelete(ws, cl, a) == MwDelete(ws, cl, 1, a, << >>)

(***************************************************************************)
(* The router under calls: the backend list is the one runCmd builds, the  *)
(* keystores hold whatever keys they were started with, the server has     *)
(* whatever clients registered.                                            *)
(***************************************************************************)
Backend(kind, safe, keys) == [kind |-> kind, safe |-> safe, keys |-> keys]

\* multi.Add(lw), multi.Add(ledger), multi.Add(walletServer) of runCmd.
Configs ==
    LET first == {<<Backend("local", sf, ks)>> : sf \in BOOLEAN, ks \in SUBSET Addrs}
        ledger == {<< >>} \cup {<<Backend("ledger", FALSE, ks)>> : ks \in SUBSET Addrs}
        server == {<< >>, <<Backend("server", FALSE, {})>>}
    IN {f \o l \o sv : f \in first, l \in ledger, sv \in server}

HasServer(ws) == \E i \in DOMAIN ws : ws[i].kind = "server"

\* The registries the server may have built: connections are alike, so of
\* the registries that differ only in which connection advertised what, the
\* one with the connections in the order of their lists stands for all.
Registries ==
    {r \in UNION {[1..k -> AddrLists] : k \in 0..MaxConns} :
        \A i, j \in DOMAIN r : i <= j => Len(r[i]) <= Len(r[j])}

\* The addresses some backend or client holds.
Known(ws, cl) ==
    UNION {ws[i].keys : i \in DOMAIN ws}
      \cup {a \in AllAddrs : Owners(cl, a) # {}}

RouterInit ==
    /\ wallets \in Configs
    /\ clients \in Registries
    /\ HasServer(wallets) \/ clients = << >>
    /\ rret = [op |-> "none", err |-> "none"]
    /\ rlog = << >>
    /\ NoRelay
    /\ unsigned = [a \in Addrs |-> << >>]
    /\ lock = "free"
    /\ calls = << >>
    /\ sub = NoSub
    /\ ret = Returned("none", "none")

Answer(op, o) == [op |-> op, err |-> o.err, val |-> o.val]

RouterNew(kt) ==
    \E fresh \in NewAddrs \ Known(wallets, clients) :
    LET o == MultiWalletNew(wallets, kt, fresh)
    IN /\ wallets' = o.ws
       /\ rret' = Answer("New", o)
       /\ rlog' = o.log
       /\ UNCHANGED <<clients, offVars, relayVars>>

RouterHas(a) ==
    LET o == MultiWalletHas(wallets, clients, a)
    IN /\ wallets' = o.ws
       /\ rret' = Answer("Has", o)
       /\ rlog' = o.log
       /\ UNCHANGED <<clients, offVars, relayVars>>

RouterList ==
    \E order \in Orders(clients) :
    LET o == MultiWalletList(wallets, clients, order)
    IN /\ wallets' = o.ws
       /\ rret' = Answer("List", o)
       /\ rlog' = o.log
       /\ UNCHANGED <<clients, offVars, relayVars>>

RouterSign(a, toSign) ==
    \E reply \in SignReplies(a, toSign) :
    LET o == MultiWalletSign(wallets, clients, a, toSign, Meta, reply)
    IN /\ wallets' = o.ws
       /\ rret' = Answer("Sign", o)
       /\ rlog' = o.log
       /\ UNCHANGED <<clients, offVars, relayVars>>

RouterExport(a) ==
    LET o == MultiWalletExport(wallets, clients, a)
    IN /\ wallets' = o.ws
       /\ rret' = Answer("Export", o)
       /\ rlog' = o.log
       /\ UNCHANGED <<clients, offVars, relayVars>>

RouterImport(ki) ==
    LET o == MultiWalletImport(wallets, ki)
    IN /\ wallets' = o.ws
       /\ rret' = Answer("Import", o)
       /\ rlog' = o.log
       /\ UNCHANGED <<clients, offVars, relayVars>>

RouterDelete(a) ==
    LET o == MultiWalletDelete(wallets, clients, a)
    IN /\ wallets' = o.ws
       /\ rret' = Answer("Delete", o)
       /\ rlog' = o.log
       /\ UNCHANGED <<clients, offVars, relayVars>>

RouterNext ==
    \/ \E kt \in KeyTypes : RouterNew(kt)
    \/ \E a \in AllAddrs : RouterHas(a)
    \/ RouterList
    \/ \E a \in AllAddrs : RouterSign(a, <<1>>)
    \/ \E a \in AllAddrs : RouterExport(a)
    \/ \E ki \in KeyInfos : RouterImport(ki)
    \/ \E a \in AllAddrs : RouterDelete(a)

SpecRouter == RouterInit /\ [][RouterNext]_vars

(***************************************************************************)
(* The key operations the offline queue and the relay server do not        *)
(* support, called while the queue has pending requests and the server     *)
(* has clients.                                                            *)
(***************************************************************************)
\* OfflineWallet.WalletNew
OfflineWalletNew(kt) ==
    /\ ret' = Returned("New", "cannot new keys from offline wallets")
    /\ UNCHANGED <<unsigned, lock, calls, sub, walletVars>>

\* OfflineWallet.WalletExport
OfflineWalletExport(a) ==
    /\ ret' = Returned("Export", "cannot export keys from offline wallets")
    /\ UNCHANGED <<unsigned, lock, calls, sub, walletVars>>

\* The offline queue with nothing pending, and next to it a router of
\* runCmd --safe --server whose server has no client yet or one.
KeysInit ==
    /\ unsigned = [a \in Addrs |-> << >>]
    /\ lock = "free"
    /\ calls = << >>
    /\ sub = NoSub
    /\ ret = Returned("none", "none")
    /\ wallets = <<Backend("local", TRUE, {"a2"}), Backend("server", FALSE, {})>>
    /\ clients \in {r \in Registries : Len(r) <= 1}
    /\ rret = [op |-> "none", err |-> "none"]
    /\ rlog = << >>
    /\ NoRelay

KeysNext ==
    \/ SignEnqueue("a1", <<1>>, MTChainMsg)
    \/ \E ch \in Chans : SignTimeout(ch)
    \/ \E ch \in Chans : SignCleanup(ch)
    \/ \E a \in Addrs : SubmitSend([Address |-> a, ToSign |-> <<1>>,
                                     Signature |-> [by |-> a, of |-> <<1>>]])
    \/ \E ch \in Chans : Rendezvous(ch)
    \/ \E kt \in KeyTypes : OfflineWalletNew(kt)
    \/ \E a \in AllAddrs : OfflineWalletExport(a)
    \/ \E kt \in KeyTypes : RouterNew(kt)
    \/ \E a \in AllAddrs : RouterExport(a)
    \/ \E a \in AllAddrs : RouterDelete(a)

SpecKeys == KeysInit /\ [][KeysNext]_vars


(***************************************************************************)
(* The relay: the frames of the protocol (server.go, lines 18 to 44) and   *)
(* their JSON payloads. A payload is the object json.Marshal wrote, with   *)
(* the fields of the struct it came from; json.Unmarshal fills the fields  *)
(* of its target that the object has and leaves the others zero.           *)
(***************************************************************************)
CommandListWalletRequest == 0
CommandListWalletResponse == 1
CommandSignRequest == 2
CommandSignResponse == 3

\* Data: nil of the handshake request, and bytes that are no JSON.
NilData == [json |-> "nil"]
Undecodable == [json |-> "bad"]

MarshalSignRequest(signer, toSign, meta) ==
    [json |-> "obj", Signer |-> signer, ToSign |-> toSign, Meta |-> meta]

MarshalSignResponse(sig, e) == [json |-> "obj", Signature |-> sig, Err |-> e]

MarshalListWalletResponse(addrs, e) == [json |-> "obj", Addresses |-> addrs, Err |-> e]

Field(d, name, zero) == IF name \in DOMAIN d THEN d[name] ELSE zero

UnmarshalSignRequest(d) ==
    IF d.json # "obj" THEN [err |-> "json", Signer |-> Undef, ToSign |-> << >>, Meta |-> Meta]
    ELSE [err |-> "nil", Signer |-> Field(d, "Signer", Undef),
          ToSign |-> Field(d, "ToSign", << >>), Meta |-> Field(d, "Meta", Meta)]

UnmarshalSignResponse(d) ==
    IF d.json # "obj" THEN [err |-> "json", Signature |-> NoSig, Err |-> ""]
    ELSE [err |-> "nil", Signature |-> Field(d, "Signature", NoSig),
          Err |-> Field(d, "Err", "")]

UnmarshalListWalletResponse(d) ==
    IF d.json # "obj" THEN [err |-> "json", Addresses |-> << >>, Err |-> ""]
    ELSE [err |-> "nil", Addresses |-> Field(d, "Addresses", << >>),
          Err |-> Field(d, "Err", "")]

\* A command on the wire, and the two ways a connection ends for a reader:
\* a close frame, or the network gone.
Command(cmd, data) == [frame |-> "json", Command |-> cmd, Data |-> data]
CloseFrame == [frame |-> "close"]
Lost == [frame |-> "lost"]

\* The elements of a sequence.
Range(q) == {q[i] : i \in DOMAIN q}

\* The wallet of a connecting client, holding the keys of w.
ClientWallet(w) == [kind |-> "local", safe |-> FALSE, keys |-> Range(w)]

\* The reply of the connect command's loop to the command out, by a client
\* whose wallet lists w; fails says the wallet's own call fails.
ClientLoop(out, w, fails) ==
    IF out.Command = CommandListWalletRequest
    THEN Command(CommandListWalletResponse,
                 IF fails THEN MarshalListWalletResponse(<< >>, "wallet")
                 ELSE MarshalListWalletResponse(w, ""))
    ELSE IF out.Command = CommandSignRequest
    THEN LET req == UnmarshalSignRequest(out.Data)
             r == KsSign(ClientWallet(w), req.Signer, req.ToSign, req.Meta)
         IN Command(CommandSignResponse,
                    IF req.err # "nil" THEN MarshalSignResponse(NoSig, req.err)
                    ELSE IF fails THEN MarshalSignResponse(NoSig, "wallet")
                    ELSE IF r.err # "nil" THEN MarshalSignResponse(NoSig, r.err)
                    ELSE MarshalSignResponse(r.val, ""))
    ELSE Command(0, NilData)

\* What a peer that is not the connect command may answer to out: bytes
\* that are no JSON, a kind the request does not call for, an error string
\* next to a result, a signature of its own choosing.
OtherFrames(out, w) ==
    IF out.Command = CommandListWalletRequest
    THEN {Command(CommandListWalletResponse, Undecodable),
          Command(CommandSignResponse, MarshalListWalletResponse(w, "")),
          Command(CommandListWalletResponse, MarshalListWalletResponse(w, "wallet"))}
    ELSE LET req == UnmarshalSignRequest(out.Data)
         IN {Command(CommandSignResponse, Undecodable),
             Command(CommandListWalletResponse, MarshalListWalletResponse(w, ""))}
            \cup {Command(CommandSignResponse, MarshalSignResponse(sg, e)) :
                    sg \in SigsOver(req.ToSign), e \in {"", "wallet"}}

PeerFrames(out, w) ==
    {ClientLoop(out, w, fails) : fails \in BOOLEAN} \cup OtherFrames(out, w)

\* A mutex that lets every Lock through.
CanLockAlways(m) == TRUE

\* o.mutex.Lock() returns: no other goroutine holds the mutex.
CanLock(m) == m = "free"

(***************************************************************************)
(* WalletServer.ServeHTTP and serve, one connection c.                     *)
(***************************************************************************)
\* The next connection is upgraded and serve has written the list-wallets
\* request; it now waits in ReadJSON. The peer's wallet lists w.
Connect(c, w) ==
    /\ conn[c].st = "none"
    /\ \A d \in Conns : d < c => conn[d].st # "none"
    /\ conn' = [conn EXCEPT ![c].st = "hs", ![c].wallet = w]
    /\ toPeer' = [toPeer EXCEPT ![c] = Command(CommandListWalletRequest, NilData)]
    /\ UNCHANGED <<fromPeer, mutex, sgn, waiting, routerVars, offVars>>

\* The peer answers the command it was sent.
PeerReply(c) ==
    /\ toPeer[c] # NoFrame
    /\ fromPeer[c] = NoFrame
    /\ \E f \in PeerFrames(toPeer[c], conn[c].wallet) :
          fromPeer' = [fromPeer EXCEPT ![c] = f]
    /\ toPeer' = [toPeer EXCEPT ![c] = NoFrame]
    /\ UNCHANGED <<conn, mutex, sgn, waiting, routerVars, offVars>>

\* The peer closes the connection, or the network goes, with a command
\* unanswered; an end that comes while the server reads nothing shows at
\* the server's next read, and so the same.
PeerClose(c, f) ==
    /\ toPeer[c] # NoFrame
    /\ fromPeer[c] = NoFrame
    /\ fromPeer' = [fromPeer EXCEPT ![c] = f]
    /\ toPeer' = [toPeer EXCEPT ![c] = NoFrame]
    /\ UNCHANGED <<conn, mutex, sgn, waiting, routerVars, offVars>>

\* serve: call fails in ReadJSON and sends on close, which ServeHTTP, still
\* inside serve, never receives from.
HandshakeFail(c) ==
    /\ conn[c].st = "hs"
    /\ fromPeer[c] \in {CloseFrame, Lost}
    /\ conn' = [conn EXCEPT ![c].st = "hsblocked"]
    /\ UNCHANGED <<toPeer, fromPeer, mutex, sgn, waiting, routerVars, offVars>>

\* A serve that takes any reply for the list of wallets.
ServeCheckNone(out) == "nil"

\* What serve makes of the reply: the error it returns, or "nil".
ServeCheck(out) ==
    IF out.Command # CommandListWalletResponse THEN "expect list wallet response"
    ELSE IF UnmarshalListWalletResponse(out.Data).err # "nil"
    THEN "failed to decode addresses"
    ELSE "nil"

\* serve returns an error; ServeHTTP logs it, returns and closes.
HandshakeReject(c) ==
    /\ conn[c].st = "hs"
    /\ fromPeer[c].frame = "json"
    /\ ServeCheck(fromPeer[c]) # "nil"
    /\ conn' = [conn EXCEPT ![c].st = "rejected"]
    /\ fromPeer' = [fromPeer EXCEPT ![c] = NoFrame]
    /\ UNCHANGED <<toPeer, mutex, sgn, waiting, routerVars, offVars>>

\* A registration that hands the new list to every registered client.
RegisteredAll(cl, c, resp) == [d \in DOMAIN cl \cup {c} |-> resp.Addresses]

\* o.clients[client] = true, with client.addresses = resp.Addresses.
Registered(cl, c, resp) == (c :> resp.Addresses) @@ cl

\* serve records the addresses, registers the client under the mutex, sets
\* the close handler and starts the heartbeat; ServeHTTP waits on close.
HandshakeRegister(c) ==
    /\ conn[c].st = "hs"
    /\ fromPeer[c].frame = "json"
    /\ ServeCheck(fromPeer[c]) = "nil"
    /\ CanLock(mutex)
    /\ clients' = Registered(clients, c, UnmarshalListWalletResponse(fromPeer[c].Data))
    /\ conn' = [conn EXCEPT ![c].st = "active", ![c].hb = "on"]
    /\ fromPeer' = [fromPeer EXCEPT ![c] = NoFrame]
    /\ UNCHANGED <<toPeer, mutex, sgn, waiting, wallets, rret, rlog, offVars>>

\* The heartbeat's WriteControl fails: the send on close ends a ServeHTTP
\* that waits for it, and blocks for good when ServeHTTP has returned.
HeartbeatFail(c) ==
    /\ conn[c].hb = "on"
    /\ conn[c].st \in {"active", "done"}
    /\ conn' = [conn EXCEPT ![c].st = "done",
                            ![c].hb = IF conn[c].st = "active" THEN "exit" ELSE "blocked"]
    /\ UNCHANGED <<toPeer, fromPeer, mutex, sgn, waiting, routerVars, offVars>>

(***************************************************************************)
(* A router Sign that may reach the server: MultiWallet.WalletSign, then   *)
(* WalletServer.WalletSign and clientWallet.call.                          *)
(***************************************************************************)
SignResult(err, sig) == [op |-> "Sign", err |-> err, val |-> sig]

\* The backend the loop of MultiWallet.WalletSign stops at, 0 for none.
Claimant(h) == IF h.val THEN h.log[Len(h.log)][1] ELSE 0

\* No backend has the signer.
SignNotFound(a, toSign) ==
    LET h == MultiWalletHas(wallets, clients, a)
    IN /\ sgn.pc = "idle"
       /\ CanLock(mutex)
       /\ Claimant(h) = 0
       /\ rret' = SignResult("key not found", NoSig)
       /\ rlog' = h.log
       /\ UNCHANGED <<wallets, clients, relayVars, offVars>>

\* A backend before the server has the signer and signs.
SignLocal(a, toSign) ==
    LET h == MultiWalletHas(wallets, clients, a)
        i == Claimant(h)
    IN /\ sgn.pc = "idle"
       /\ CanLock(mutex)
       /\ i # 0
       /\ wallets[i].kind # "server"
       /\ LET r == WalletSign(wallets[i], clients, a, toSign, Meta,
                              [err |-> "nil", sig |-> NoSig])
          IN rret' = SignResult(r.err, r.val)
       /\ rlog' = Append(h.log, <<i, "WalletSign">>)
       /\ UNCHANGED <<wallets, clients, relayVars, offVars>>

\* The server's WalletHas said true and released the mutex; the router calls
\* the server's WalletSign.
SignRelay(a, toSign) ==
    LET h == MultiWalletHas(wallets, clients, a)
        i == Claimant(h)
    IN /\ sgn.pc = "idle"
       /\ CanLock(mutex)
       /\ i # 0
       /\ wallets[i].kind = "server"
       /\ sgn' = [NoSign EXCEPT !.pc = "has", !.signer = a, !.toSign = toSign]
       /\ rlog' = Append(h.log, <<i, "WalletSign">>)
       /\ UNCHANGED <<wallets, clients, rret, conn, toPeer, fromPeer, mutex, waiting, offVars>>

\* The sequence q without its element i.
Without(q, i) == SubSeq(q, 1, i - 1) \o SubSeq(q, i + 1, Len(q))

\* Another Sign call while one is under way: the server's WalletHas, which
\* takes the mutex, said true, and the call goes on to the server's
\* WalletSign, where it has to take the mutex again.
SignRelayToo(a, toSign) ==
    LET h == MultiWalletHas(wallets, clients, a)
        i == Claimant(h)
    IN /\ sgn.pc # "idle"
       /\ Len(waiting) < MaxCallers - 1
       /\ CanLock(mutex)
       /\ i # 0
       /\ wallets[i].kind = "server"
       /\ waiting' = Append(waiting, [signer |-> a, toSign |-> toSign])
       /\ rlog' = Append(h.log, <<i, "WalletSign">>)
       /\ UNCHANGED <<wallets, clients, rret, conn, toPeer, fromPeer, mutex, sgn, offVars>>

\* A call that waits in the Lock of WalletSign and can get the mutex is the
\* next to go through WalletSign; of two calls that can, the one that came
\* first stands for either.
SignNext(i) ==
    /\ i \in DOMAIN waiting
    /\ sgn.pc # "has"
    /\ CanLock(mutex)
    /\ sgn' = [NoSign EXCEPT !.pc = "has", !.signer = waiting[i].signer,
                             !.toSign = waiting[i].toSign]
    /\ waiting' = Without(waiting, i)
    /\ UNCHANGED <<conn, toPeer, fromPeer, mutex, routerVars, offVars>>

\* A request that names a signer of the server's choosing.
SignRequestBlank(signer, toSign, meta) ==
    Command(CommandSignRequest, MarshalSignRequest(Undef, toSign, meta))

\* command{Command: CommandSignRequest, Data: bytes}
SignRequest(signer, toSign, meta) ==
    Command(CommandSignRequest, MarshalSignRequest(signer, toSign, meta))

\* WalletSign takes the mutex and ranges over the clients: with no client
\* that has the signer it returns "wallet not exist"; else it stops at one,
\* whichever the range over the map meets first, and call writes the request.
SignSend ==
    /\ sgn.pc = "has"
    /\ CanLock(mutex)
    /\ IF Owners(clients, sgn.signer) = {}
       THEN /\ rret' = SignResult("wallet not exist", NoSig)
            /\ sgn' = NoSign
            /\ UNCHANGED <<mutex, toPeer>>
       ELSE \E c \in Owners(clients, sgn.signer) :
            /\ conn[c].st = "active"
            /\ mutex' = "sign"
            /\ toPeer' = [toPeer EXCEPT ![c] = SignRequest(sgn.signer, sgn.toSign, Meta)]
            /\ sgn' = [sgn EXCEPT !.pc = "wait", !.conn = c, !.writes = @ + 1]
            /\ UNCHANGED rret
    /\ UNCHANGED <<conn, fromPeer, waiting, wallets, clients, rlog, offVars>>

\* call's WriteJSON fails and call sends on close: a ServeHTTP that waits
\* receives, and WalletSign returns the error; with ServeHTTP gone the send
\* blocks for good, the mutex held.
SignSendFail(c) ==
    /\ sgn.pc = "has"
    /\ CanLock(mutex)
    /\ c \in Owners(clients, sgn.signer)
    /\ conn[c].st \in {"active", "done"}
    /\ IF conn[c].st = "active"
       THEN /\ conn' = [conn EXCEPT ![c].st = "done"]
            /\ sgn' = NoSign
            /\ rret' = SignResult("send command", NoSig)
            /\ UNCHANGED mutex
       ELSE /\ sgn' = [sgn EXCEPT !.pc = "blocked", !.conn = c]
            /\ mutex' = "sign"
            /\ UNCHANGED <<conn, rret>>
    /\ UNCHANGED <<toPeer, fromPeer, waiting, wallets, clients, rlog, offVars>>

\* WalletSign, from the decoded response to its return.
Signed(resp) ==
    IF resp.err # "nil" THEN SignResult("deserialize response", NoSig)
    ELSE IF Len(resp.Err) > 0 THEN SignResult(resp.Err, NoSig)
    ELSE SignResult("nil", resp.Signature)

\* call reads the reply, WalletSign decodes it and returns; the deferred
\* Unlock runs.
SignRead ==
    /\ sgn.pc = "wait"
    /\ fromPeer[sgn.conn].frame = "json"
    /\ rret' = Signed(UnmarshalSignResponse(fromPeer[sgn.conn].Data))
    /\ fromPeer' = [fromPeer EXCEPT ![sgn.conn] = NoFrame]
    /\ sgn' = NoSign
    /\ mutex' = "free"
    /\ UNCHANGED <<conn, toPeer, waiting, wallets, clients, rlog, offVars>>

\* call's ReadJSON fails with the network gone: the send on close as in
\* SignSendFail.
SignReadFail ==
    /\ sgn.pc = "wait"
    /\ fromPeer[sgn.conn] = Lost
    /\ IF conn[sgn.conn].st = "active"
       THEN /\ conn' = [conn EXCEPT ![sgn.conn].st = "done"]
            /\ sgn' = NoSign
            /\ rret' = SignResult("read", NoSig)
            /\ mutex' = "free"
       ELSE /\ sgn' = [sgn EXCEPT !.pc = "blocked"]
            /\ UNCHANGED <<conn, rret, mutex>>
    /\ UNCHANGED <<toPeer, fromPeer, waiting, wallets, clients, rlog, offVars>>

\* ReadJSON meets a close frame and runs the close handler, whose Lock waits
\* for the mutex the reading WalletSign holds.
SignReadClose ==
    /\ sgn.pc = "wait"
    /\ fromPeer[sgn.conn] = CloseFrame
    /\ sgn' = [sgn EXCEPT !.pc = "blocked"]
    /\ UNCHANGED <<conn, toPeer, fromPeer, mutex, waiting, routerVars, offVars>>

\* The server of runCmd --server: the keystore first, holding whatever keys
\* it was started with, then the WalletServer, no connection made yet.
RelayInit ==
    /\ wallets \in {<<Backend("local", FALSE, ks), Backend("server", FALSE, {})>> :
                      ks \in SUBSET Addrs}
    /\ clients = << >>
    /\ rret = [op |-> "none", err |-> "none"]
    /\ rlog = << >>
    /\ RelayIdle
    /\ unsigned = [a \in Addrs |-> << >>]
    /\ lock = "free"
    /\ calls = << >>
    /\ sub = NoSub
    /\ ret = Returned("none", "none")

SignPayloads == {<<1>>}

\* What the wallet of a connecting peer may list.
PeerWallets == {<<"a1">>}

RelayNext ==
    \/ \E c \in Conns, w \in PeerWallets : Connect(c, w)
    \/ \E c \in Conns : PeerReply(c)
    \/ \E c \in Conns, f \in {CloseFrame, Lost} : PeerClose(c, f)
    \/ \E c \in Conns : HandshakeFail(c)
    \/ \E c \in Conns : HandshakeReject(c)
    \/ \E c \in Conns : HandshakeRegister(c)
    \/ \E c \in Conns : HeartbeatFail(c)
    \/ \E a \in Addrs, b \in SignPayloads : SignNotFound(a, b)
    \/ \E a \in Addrs, b \in SignPayloads : SignLocal(a, b)
    \/ \E a \in Addrs, b \in SignPayloads : SignRelay(a, b)
    \/ \E a \in Addrs, b \in SignPayloads : SignRelayToo(a, b)
    \/ \E i \in 1..MaxCallers : SignNext(i)
    \/ SignSend
    \/ \E c \in Conns : SignSendFail(c)
    \/ SignRead
    \/ SignReadFail
    \/ SignReadClose

SpecRelay == RelayInit /\ [][RelayNext]_vars


(***************************************************************************)
(* The relay's contracts, over SpecRelay.                                  *)
(***************************************************************************)
\* The server has read the handshake reply of c in this step.
HandshakeRead(c) ==
    conn[c].st = "hs" /\ fromPeer[c].frame = "json" /\ conn'[c].st # "hs"

\* The reply is of another kind than list-wallets response, or its data
\* does not decode.
Malformed(f) ==
    \/ f.Command # CommandListWalletResponse
    \/ f.Data.json # "obj"

\* This step writes a sign request to c.
SignRequestTo(c) ==
    /\ toPeer'[c] # toPeer[c]
    /\ toPeer'[c].frame = "json"
    /\ toPeer'[c].Command = CommandSignRequest

\* This step is a router Sign(a, ...) being called.
SignCalled(a) ==
    \E b \in SignPayloads : SignNotFound(a, b) \/ SignLocal(a, b) \/ SignRelay(a, b)

\* Only connections the server turned away would have advertised a: no
\* backend and no registered connection has it.
OnlyRejectedHave(a) ==
    /\ \E c \in Conns : conn[c].st = "rejected" /\ a \in Range(conn[c].wallet)
    /\ \A i \in DOMAIN wallets : ~WalletHas(wallets[i], clients, a).val

\* C4: a connection whose handshake reply does not decode, or is of another
\* kind than list-wallets response, is turned away and is in the registry in
\* no later state; no sign request is ever written to it, and a Sign for an
\* address that only such a connection would have advertised returns "key
\* not found" with nothing sent.
C4_HandshakeRejection ==
    [][/\ \A c \in Conns :
            /\ HandshakeRead(c) /\ Malformed(fromPeer[c]) =>
                 conn'[c].st = "rejected" /\ c \notin DOMAIN clients'
            /\ conn[c].st = "rejected" =>
                 /\ conn'[c] = conn[c]
                 /\ c \notin DOMAIN clients /\ c \notin DOMAIN clients'
                 /\ ~SignRequestTo(c)
       /\ \A a \in Addrs :
            OnlyRejectedHave(a) /\ SignCalled(a) =>
              /\ rret' = SignResult("key not found", NoSig)
              /\ UNCHANGED <<toPeer, sgn, clients>>]_vars

\* Both connections were turned away, one for undecodable data and one for
\* a reply of the wrong kind, and a Sign for the address their wallets hold
\* returned "key not found".
C4_Witness ==
    /\ \A c \in Conns : conn[c].st = "rejected" /\ "a1" \in Range(conn[c].wallet)
    /\ wallets[1].keys = {"a2"}
    /\ clients = << >>
    /\ rret = SignResult("key not found", NoSig)
    /\ \A c \in Conns : toPeer[c] = NoFrame

\* The reply is a sign response with a signature and an empty error string.
ValidSignature(f) ==
    /\ f.frame = "json"
    /\ f.Command = CommandSignResponse
    /\ f.Data.json = "obj"
    /\ UnmarshalSignResponse(f.Data).Err = ""
    /\ UnmarshalSignResponse(f.Data).Signature # NoSig

\* C5: the server's Sign(addrX, payload, meta) writes one sign request, to a
\* registered connection that advertised addrX, carrying exactly addrX, the
\* payload and the meta, and writes no other while it waits; when the reply
\* is a sign response with a signature and an empty error string, Sign
\* returns that signature as it came.
C5_RoundTrip ==
    [][/\ \A c \in Conns :
            SignRequestTo(c) =>
              /\ sgn.pc = "has" /\ sgn'.pc = "wait" /\ sgn'.conn = c
              /\ sgn'.writes = 1
              /\ c \in Owners(clients, sgn.signer)
              /\ UnmarshalSignRequest(toPeer'[c].Data) =
                   [err |-> "nil", Signer |-> sgn.signer,
                    ToSign |-> sgn.toSign, Meta |-> Meta]
              /\ \A d \in Conns \ {c} : toPeer'[d] = toPeer[d]
       /\ sgn.pc = "wait" => \A c \in Conns : ~SignRequestTo(c)
       /\ sgn.pc = "has" /\ sgn'.pc = "wait" => SignRequestTo(sgn'.conn)
       /\ /\ sgn.pc = "wait"
          /\ sgn'.pc = "idle"
          /\ ValidSignature(fromPeer[sgn.conn])
          => rret' = SignResult("nil", UnmarshalSignResponse(fromPeer[sgn.conn].Data).Signature)]_vars

\* A Sign through the server returned the signature the peer sent, which
\* another key than the signer's made.
C5_Witness ==
    /\ rret.op = "Sign"
    /\ rret.err = "nil"
    /\ rret.val = [by |-> "a2", of |-> <<1>>]
    /\ rlog[Len(rlog)] = <<2, "WalletSign">>
    /\ wallets[2].kind = "server"
    /\ sgn = NoSign
    /\ mutex = "free"

\* A Sign that read a response with a non-empty error string returns that
\* error and no signature.
ErrorFailsSign ==
    /\ sgn.pc = "wait"
    /\ sgn'.pc = "idle"
    /\ fromPeer[sgn.conn].frame = "json"
    /\ fromPeer[sgn.conn].Data.json = "obj"
    /\ UnmarshalSignResponse(fromPeer[sgn.conn].Data).Err # ""
    => rret' = SignResult(UnmarshalSignResponse(fromPeer[sgn.conn].Data).Err, NoSig)

\* A handshake that read a list-wallets response with a non-empty error
\* string registers nothing.
ErrorFailsList ==
    \A c \in Conns :
      /\ HandshakeRead(c)
      /\ fromPeer[c].Command = CommandListWalletResponse
      /\ fromPeer[c].Data.json = "obj"
      /\ UnmarshalListWalletResponse(fromPeer[c].Data).Err # ""
      => c \notin DOMAIN clients' /\ clients' = clients

\* C6: a relay response with a non-empty error string fails the request and
\* its result field is not used: Sign returns the carried error and no
\* signature, and a list-wallets response with an error leaves the address
\* list unrecorded and the connection unregistered.
C6_ErrorString == [][ErrorFailsSign /\ ErrorFailsList]_vars

\* The half of C6 that is about sign responses.
C6_SignHalf == [][ErrorFailsSign]_vars

(***************************************************************************)
(* The router's contracts, over SpecRouter.                                *)
(***************************************************************************)
\* The backends, in list order, whose own Has is true of a.
Claiming(a) == {i \in DOMAIN wallets : WalletHas(wallets[i], clients, a).val}

First(S) == CHOOSE i \in S : \A j \in S : i <= j

\* The backends on which the call that just returned invoked method.
Invoked(log, method) == {log[k][1] : k \in {n \in DOMAIN log : log[n][2] = method}}

\* The backends the call that just returned touched at all.
Touched(log) == {log[k][1] : k \in DOMAIN log}

\* The other backends are as they were.
OthersKept(f) == \A j \in DOMAIN wallets : j # f => wallets'[j] = wallets[j]

\* The router handed back r, the result of backend f, and f is as r left it.
HandedBack(r, f) ==
    /\ rret'.err = r.err
    /\ rret'.val = r.val
    /\ wallets' = [wallets EXCEPT ![f] = r.st]

\* method went to backend f alone, and no backend after f was touched.
Delegated(f, method) ==
    /\ Invoked(rlog', method) = {f}
    /\ \A j \in Touched(rlog') : j <= f

NoneClaims(method) ==
    /\ rret'.err = "key not found"
    /\ Invoked(rlog', method) = {}
    /\ wallets' = wallets

Makes(kt) == {i \in DOMAIN wallets :
                \A fresh \in NewAddrs : WalletNew(wallets[i], kt, fresh).err = "nil"}
Stores(ki) == {i \in DOMAIN wallets : WalletImport(wallets[i], ki).err = "nil"}

NoneSupports(method) ==
    /\ rret'.err = "no wallet backends supporting key type"
    /\ Invoked(rlog', method) = DOMAIN wallets
    /\ wallets' = wallets

\* C8: a router New or Import tries the backends in list order and returns
\* the address of the first that succeeds, invoking none after it, so that
\* the key is made or stored in that backend alone; when every backend
\* rejects, the one error "no wallet backends supporting key type" comes back.
C8_FirstSuccess ==
    [][/\ \A kt \in KeyTypes :
            rret'.op = "New" /\ RouterNew(kt) =>
              IF Makes(kt) = {} THEN NoneSupports("WalletNew")
              ELSE /\ rret'.err = "nil"
                   /\ Touched(rlog') = 1..First(Makes(kt))
                   /\ OthersKept(First(Makes(kt)))
                   /\ rret'.val \in NewAddrs
                   /\ wallets'[First(Makes(kt))].keys =
                        wallets[First(Makes(kt))].keys \cup {rret'.val}
       /\ \A ki \in KeyInfos :
            rret'.op = "Import" /\ RouterImport(ki) =>
              IF Stores(ki) = {} THEN NoneSupports("WalletImport")
              ELSE /\ rret'.err = "nil"
                   /\ Touched(rlog') = 1..First(Stores(ki))
                   /\ OthersKept(First(Stores(ki)))
                   /\ rret'.val = ki.key
                   /\ wallets'[First(Stores(ki))].keys =
                        wallets[First(Stores(ki))].keys \cup {ki.key}]_vars

\* New went past a restricting first backend, which refused, and returned
\* the address the second backend made.
C8_Witness ==
    /\ rret.op = "New"
    /\ rret.err = "nil"
    /\ rlog = <<<<1, "WalletNew">>, <<2, "WalletNew">>>>
    /\ wallets[1].safe
    /\ rret.val \in wallets[2].keys
    /\ rret.val \notin wallets[1].keys

NoDuplicates(q) == \A i, j \in DOMAIN q : i # j => q[i] # q[j]

\* One backend's own list holds an address twice.
ListsTwice(b, cl) == \E order \in Orders(cl) : ~NoDuplicates(WalletList(b, cl, order).val)

\* C9: a router List returns every address some backend lists, each once
\* and nothing else, even where one backend's own list holds an address
\* twice.
C9_ListUnion ==
    [][rret'.op = "List" /\ RouterList =>
         /\ rret'.err = "nil"
         /\ NoDuplicates(rret'.val)
         /\ Range(rret'.val) =
              UNION {Range(WalletList(wallets[i], clients, order).val) :
                       i \in DOMAIN wallets, order \in Orders(clients)}]_vars

\* List returned two addresses where the keystore holds one of them and the
\* server's two clients both advertise it.
C9_Witness ==
    /\ rret.op = "List"
    /\ rret.err = "nil"
    /\ Len(rret.val) = 2
    /\ \E i \in DOMAIN wallets : ListsTwice(wallets[i], clients)
    /\ \E a \in wallets[1].keys : Cardinality(Owners(clients, a)) = 2

Same(r, d) == r.err = d.err /\ r.val = d.val /\ Inner(r.st) = d.st

Refused(r, b) == r.err # "nil" /\ r.st = b /\ r.inner = << >>

\* A backend of the list under a SafeWallet.
Safe(b) == [b EXCEPT !.safe = TRUE]

\* C10: a SafeWallet around any backend fails New and Export for every
\* input, invoking nothing on the backend and leaving it as it is, and its
\* Has, List, Sign and Delete (and Import) return what the backend itself
\* returns and change it as the direct call does.
C10_SafeWallet ==
    \A i \in DOMAIN wallets :
      LET b == Safe(wallets[i]) IN
      /\ \A kt \in KeyTypes, fresh \in NewAddrs : Refused(WalletNew(b, kt, fresh), b)
      /\ \A a \in AllAddrs :
           /\ Refused(WalletExport(b, a), b)
           /\ Same(WalletHas(b, clients, a), WalletHas(Inner(b), clients, a))
           /\ Same(WalletDelete(b, a), WalletDelete(Inner(b), a))
           /\ \A reply \in SignReplies(a, <<1>>) :
                Same(WalletSign(b, clients, a, <<1>>, Meta, reply),
                     WalletSign(Inner(b), clients, a, <<1>>, Meta, reply))
      /\ \A order \in Orders(clients) :
           Same(WalletList(b, clients, order), WalletList(Inner(b), clients, order))
      /\ \A ki \in KeyInfos : Same(WalletImport(b, ki), WalletImport(Inner(b), ki))

\* A Delete went through the SafeWallet to the keystore and removed a key
\* there; an Export of a key the keystore holds was refused.
C10_Witness ==
    /\ wallets[1].safe
    /\ rret.op = "Delete"
    /\ rret.err = "nil"
    /\ rlog = <<<<1, "WalletHas">>, <<1, "WalletDelete">>>>
    /\ \E a \in wallets[1].keys :
          /\ WalletExport(wallets[1], a).err = "DO NOT EXPORT THIS WALLET"
          /\ WalletExport(Inner(wallets[1]), a).err = "nil"

\* No address is claimed by two backends of the router.
SingleOwner == \A a \in AllAddrs : Cardinality(Claiming(a)) <= 1

\* C12: in every reachable state at most one backend of the router answers
\* Has(addr) = true for any given address.
C12_SingleOwner == SingleOwner

\* No call on the router makes a second backend claim an address.
C12_CallsKeepOwner == [][SingleOwner => SingleOwner']_vars

(***************************************************************************)
(* The unsupported key operations, over SpecKeys.                          *)
(***************************************************************************)
\* The backends that are the relay server.
Servers == {i \in DOMAIN wallets : wallets[i].kind = "server"}

\* This step called method on the server backend.
ServerCalled(method) == Invoked(rlog', method) \cap Servers # {}

\* C13: New and Export on the offline queue return an error for every input
\* in every state and change neither the pending map, nor the lock, nor any
\* Sign call; New, Export and Delete on the relay server return an error for
\* every input and every registry, and a router call that reaches them
\* returns an error and leaves the registry and all key sets as they were.
C13_Unsupported ==
    [][ /\ (ret' # ret /\ ret'.op \in {"New", "Export"}) =>
              /\ ret'.err # "nil"
              /\ UNCHANGED <<unsigned, lock, calls, sub, walletVars>>
        /\ (ret' # ret \/ calls' # calls) =>
              /\ \A kt \in KeyTypes : ENABLED OfflineWalletNew(kt)
              /\ \A a \in AllAddrs : ENABLED OfflineWalletExport(a)
        /\ rret' # rret => \A i \in Servers :
              /\ \A kt \in KeyTypes, fresh \in NewAddrs :
                    /\ WalletNew(wallets[i], kt, fresh).err # "nil"
                    /\ WalletNew(wallets[i], kt, fresh).st = wallets[i]
              /\ \A a \in AllAddrs :
                    /\ WalletExport(wallets[i], a).err # "nil"
                    /\ WalletExport(wallets[i], a).st = wallets[i]
                    /\ WalletDelete(wallets[i], a).err # "nil"
                    /\ WalletDelete(wallets[i], a).st = wallets[i]
        /\ (rret' # rret \/ rlog' # rlog) =>
              \A method \in {"WalletNew", "WalletExport", "WalletDelete"} :
                 ServerCalled(method) =>
                    /\ rret'.err # "nil"
                    /\ wallets' = wallets
                    /\ clients' = clients
                    /\ UNCHANGED <<offVars, relayVars>>
      ]_vars

\* With a request pending on the offline queue its Export was refused, and
\* a Delete that the router handed to the server, whose client advertised
\* the address, was refused with the client still registered.
C13_Witness ==
    /\ ret = Returned("Export", "cannot export keys from offline wallets")
    /\ \E ch \in Chans : BlockedOnOwnEntry(unsigned, ch)
    /\ rret.op = "Delete"
    /\ rret.err = "not support to delete"
    /\ rlog[Len(rlog)] = <<2, "WalletDelete">>
    /\ Owners(clients, "a1") # {}

(***************************************************************************)
(* The relay's locking and the life of a connection, over SpecRelay.       *)
(***************************************************************************)
\* ServeHTTP has returned and its deferred ws.Close() has run.
Closed(c) == conn[c].st \in {"rejected", "done"}

\* C15: the registry mutex is not held while a Sign round trip waits for
\* the peer's answer, so that Has, List and Sign calls can take it.
C15_MutexFreeInRoundTrip == sgn.pc = "wait" => mutex = "free"

\* C16: when the write or the read of a Sign round trip on a registered
\* connection fails, the close signal is raised and taken, the connection
\* leaves the registry, and the Sign call returns an error.
C16_FailureTearsDown ==
    [][ \A c \in Conns :
          (SignSendFail(c) \/ (SignReadFail /\ sgn.conn = c)) =>
             /\ conn'[c].st = "done"
             /\ c \notin DOMAIN clients'
             /\ Owners(clients', sgn.signer) \subseteq Owners(clients, sgn.signer) \ {c}
             /\ sgn'.pc = "idle"
             /\ rret'.op = "Sign"
             /\ rret'.err # "nil"
      ]_vars

\* C17: a registered connection whose heartbeat fails, or whose peer's
\* close frame is read, also inside a Sign round trip, is Closed after the
\* step and out of the registry, and a Closed connection is in the registry
\* in no state: Has, List and Sign do not see its addresses.
C17_ActiveToClosed ==
    [][ /\ \A c \in Conns :
              (conn[c].st = "active" /\ HeartbeatFail(c)) =>
                 /\ Closed(c)'
                 /\ c \notin DOMAIN clients'
        /\ SignReadClose =>
              /\ Closed(sgn.conn)'
              /\ sgn.conn \notin DOMAIN clients'
        /\ \A c \in Conns : Closed(c)' => c \notin DOMAIN clients'
      ]_vars

\* C18: every handshake that fails, by a read that fails, by data that do
\* not decode or by a reply of the wrong kind, ends with the handler
\* returned and the transport closed, the connection never registered.
C18_HandshakeTermination ==
    [][ \A c \in Conns :
          (HandshakeFail(c) \/ HandshakeReject(c)) =>
             /\ Closed(c)'
             /\ c \notin DOMAIN clients'
      ]_vars

\* This step writes a command to c.
CommandTo(c) == toPeer'[c] # toPeer[c] /\ toPeer'[c].frame = "json"

\* This step is the peer of c sending a reply.
ReplyFrom(c) == fromPeer'[c] # fromPeer[c] /\ fromPeer'[c].frame = "json"

\* This step is the server reading the reply c sent.
ReplyRead(c) == fromPeer[c].frame = "json" /\ fromPeer'[c] = NoFrame

EntriesInProgress ==
    \A k \in PendingKeys(unsigned) :
        /\ unsigned[k[1]][k[2]].ch \in DOMAIN calls
        /\ KeyOf(calls[unsigned[k[1]][k[2]].ch]) = k

\* C21: every entry of the pending map belongs to a Sign call in progress;
\* a Sign call that returns, on the timeout path as on the delivery path,
\* leaves no entry under its (address, cid) key, and whenever no Sign call is
\* in progress the pending map is empty.
C21_NoOrphanEntries ==
    /\ [](EntriesInProgress /\ (calls = << >> => PendingKeys(unsigned) = {}))
    /\ [][ calls' # calls => \A ch \in Chans :
             SignReturned(ch) =>
                /\ calls[ch].pc = "cleanup"
                /\ KeyOf(calls[ch]) \notin PendingKeys(unsigned') ]_vars

\* A Sign call has returned while the entry of another call, which has its
\* result and has yet to run its deferred function, is still in the map.
C21_Witness ==
    /\ ret.op = "Sign"
    /\ PendingKeys(unsigned) # {}
    /\ \A k \in PendingKeys(unsigned) :
          /\ unsigned[k[1]][k[2]].ch \in DOMAIN calls
          /\ calls[unsigned[k[1]][k[2]].ch].pc = "cleanup"


\* A successful submission hands its signature to exactly one Sign call, the
\* one waiting on the channel it sends on, and a Sign call that has its
\* result receives nothing more.
OneDelivery ==
    /\ (ret' # ret /\ ret' = Returned("Submit", "nil")) =>
          /\ sub.pc = "sending"
          /\ Delivered(sub.ch)
          /\ \A ch \in Chans \ {sub.ch} : ~Delivered(ch)
          /\ sub' = NoSub
    /\ \A ch \in Chans :
          /\ Delivered(ch) => calls[ch].res = NoRes /\ sub.ch = ch
          /\ (ch \in DOMAIN calls /\ calls[ch].pc = "cleanup" /\ ~SignReturned(ch))
                => calls'[ch].res = calls[ch].res

\* The half of C22 about deliveries alone.
C22_OneDelivery == [][ (calls' # calls \/ sub' # sub) => OneDelivery ]_vars

\* C22: each rendezvous is one-shot. A successful SubmitSignature hands its
\* signature to exactly one blocked Sign call, each Sign call receives at
\* most one signature, and a channel is used only by the Sign call that made
\* it and the one submitter that fulfils it: a send begins only on the
\* channel of a Sign call that waits in select and has received nothing.
C22_OneShot ==
    [][ (calls' # calls \/ sub' # sub) =>
        /\ OneDelivery
        /\ (sub.pc = "none" /\ sub'.pc = "sending") =>
              /\ sub'.ch \in DOMAIN calls
              /\ calls[sub'.ch].pc = "select"
              /\ calls[sub'.ch].res = NoRes
      ]_vars


(***************************************************************************)
(* Registration and discovery: connections register with the server while *)
(* WalletHas and WalletList of the server are called.                      *)
(***************************************************************************)
\* WalletServer.WalletHas: under the mutex, a scan of the cached lists.
ServerHas(a) ==
    /\ CanLock(mutex)
    /\ rret' = Answer("Has", SrvHas(wallets[Len(wallets)], clients, a))
    /\ UNCHANGED <<wallets, clients, rlog, relayVars, offVars>>

\* WalletServer.WalletList: under the mutex, the cached lists appended in the
\* order the range over the clients map takes.
ServerList ==
    /\ CanLock(mutex)
    /\ \E order \in Orders(clients) :
          rret' = Answer("List", SrvList(wallets[Len(wallets)], clients, order))
    /\ UNCHANGED <<wallets, clients, rlog, relayVars, offVars>>

\* What the wallets of the peers that connect may list.
DiscoveryWallets == {<<"a1">>, <<"a1", "a2">>}

DiscoveryNext ==
    \/ \E c \in Conns, w \in DiscoveryWallets : Connect(c, w)
    \/ \E c \in Conns : PeerReply(c)
    \/ \E c \in Conns, f \in {CloseFrame, Lost} : PeerClose(c, f)
    \/ \E c \in Conns : HandshakeFail(c)
    \/ \E c \in Conns : HandshakeReject(c)
    \/ \E c \in Conns : HandshakeRegister(c)
    \/ \E c \in Conns : HeartbeatFail(c)
    \/ \E a \in Addrs : ServerHas(a)
    \/ ServerList

SpecDiscovery == RelayInit /\ [][DiscoveryNext]_vars

\* Some registered connection advertised addr.
Advertised(cl, addr) == \E c \in DOMAIN cl : addr \in Range(cl[c])

RECURSIVE Count(_, _)
\* How often addr occurs in the list q.
Count(q, addr) ==
    IF q = << >> THEN 0
    ELSE (IF Head(q) = addr THEN 1 ELSE 0) + Count(Tail(q), addr)

RECURSIVE CountAll(_, _, _)
\* How often addr occurs in the lists of the connections cs.
CountAll(cl, cs, addr) ==
    IF cs = {} THEN 0
    ELSE LET c == CHOOSE x \in cs : TRUE
         IN Count(cl[c], addr) + CountAll(cl, cs \ {c}, addr)

\* C23: the address list a connection registered with never changes while
\* the connection is registered, and the server answers Has and List from
\* the cached lists of the registered connections alone: Has(addr) is true
\* exactly when one of them advertised addr, List holds every address as
\* often as the cached lists do and nothing else, and neither call writes a
\* command to a peer, reads from one or changes the registry.
C23_CachedAddresses ==
    [][ /\ \A c \in DOMAIN clients \cap DOMAIN clients' : clients'[c] = clients[c]
        /\ rret' # rret =>
            /\ \A a \in Addrs : ServerHas(a) =>
                  /\ rret'.err = "nil"
                  /\ rret'.val = Advertised(clients, a)
            /\ rret'.op = "List" =>
                  /\ rret'.err = "nil"
                  /\ \A a \in AllAddrs :
                        Count(rret'.val, a) = CountAll(clients, DOMAIN clients, a)
            /\ <<toPeer', fromPeer', clients', conn'>> = <<toPeer, fromPeer, clients, conn>>
      ]_vars

\* With connections of different lists registered, Has was answered true for
\* an address only one of them advertised.
C23_Witness ==
    /\ rret.op = "Has"
    /\ rret.val
    /\ \E c, d \in DOMAIN clients :
          /\ clients[c] # clients[d]
          /\ \E a \in Addrs : a \in Range(clients[c]) /\ a \notin Range(clients[d])


(***************************************************************************)
(* The offline queue with its scheduling: a goroutine that can run does,   *)
(* and the timer of time.After fires. A send and a receive that meet on    *)
(* the channel complete, a Sign call that has its result runs its deferred *)
(* function once the lock is free, and a Sign call does not wait in select *)
(* for ever. Calls from outside are under no obligation to arrive.         *)
(***************************************************************************)
SpecOfflineLive ==
    /\ SpecOffline
    /\ WF_vars(\E ch \in Chans : Rendezvous(ch))
    /\ WF_vars(\E ch \in Chans : SignCleanup(ch))
    /\ WF_vars(\E ch \in Chans : SignTimeout(ch))

\* C24: every SubmitSignature terminates. A submitter that has taken the
\* lock and begun its send gets to return and release the lock, whatever the
\* Sign call it found does in the meantime.
C24_SubmitTerminates ==
    (sub.pc = "sending") ~> (sub.pc = "none" /\ lock = "free")


(***************************************************************************)
(* The relay with its scheduling: a goroutine that can run does. A command *)
(* written to a peer is answered or the connection ends, serve goes on     *)
(* with the reply it read, a Sign call that can take the mutex writes its  *)
(* request or fails to, call goes on with what ReadJSON gives it, and a    *)
(* Sign call waiting for a free mutex gets it. Calls from outside and      *)
(* failures of the network are under no obligation to happen.              *)
(***************************************************************************)
SpecRelayLive ==
    /\ SpecRelay
    /\ WF_vars(\E c \in Conns : PeerReply(c) \/ \E f \in {CloseFrame, Lost} : PeerClose(c, f))
    /\ WF_vars(\E c \in Conns : HandshakeFail(c) \/ HandshakeReject(c) \/ HandshakeRegister(c))
    /\ WF_vars(SignSend \/ \E c \in Conns : SignSendFail(c))
    /\ WF_vars(SignRead \/ SignReadFail \/ SignReadClose)
    /\ WF_vars(\E i \in 1..MaxCallers : SignNext(i))

\* C25: no thread of the relay server blocks for ever while it holds the
\* registry mutex: the mutex, once taken by a Sign call, is released again,
\* and every Sign call that reached the server returns.
C25_MutexReleased ==
    /\ (mutex = "sign") ~> (mutex = "free")
    /\ (sgn.pc # "idle") ~> (sgn.pc = "idle")


\* C26: while a Sign call waits in select, the pending map has an entry
\* under the call's (address, cid) key and the channel of that entry is the
\* call's own, also when two Sign calls for the same address and payload
\* overlap and one of them returns first.
C26_WaitingCallHasEntry ==
    \A ch \in DOMAIN calls :
        calls[ch].pc = "select" => BlockedOnOwnEntry(unsigned, ch)


\* C27: the relay's Sign returns nil only with a signature carried in a
\* sign-response command that the owning peer sent in reply to this
\* request: the reply read is of kind CommandSignResponse, it decodes to a
\* response without error string, and the signature handed to the caller is
\* the one it carries and is not nil.
C27_SignResponseOnly ==
    [][ (rret' # rret /\ sgn.pc = "wait" /\ sgn'.pc # "wait"
           /\ rret'.op = "Sign" /\ rret'.err = "nil") =>
          /\ fromPeer[sgn.conn].frame = "json"
          /\ fromPeer[sgn.conn].Command = CommandSignResponse
          /\ UnmarshalSignResponse(fromPeer[sgn.conn].Data).err = "nil"
          /\ rret'.val = UnmarshalSignResponse(fromPeer[sgn.conn].Data).Signature
          /\ rret'.val # NoSig
      ]_vars

====
